---- MODULE Spec2Model ----
(***************************************************************************)
(* Model of fkleafs::ModuleManager (src/include/module_manager.h), the     *)
(* lifecycle hooks of ModuleInterface (src/include/module_interface.h),    *)
(* the static registrant and the FKL_INJECT_MODULE accessor.                *)
(*                                                                         *)
(* Every thread runs a call stack of frames.  A frame is one activation of *)
(* a function of the source; its pc names the source line it is about to   *)
(* execute.  One action is one step of one function.  A section of code    *)
(* that runs between a lock and the matching unlock of m_mutex is one      *)
(* step: no other section of m_mutex can run inside it.  Statements that   *)
(* touch only locals (a branch on a returned value, pushing a call) are    *)
(* part of the step that follows them.  A hook that only logs (ModuleA's   *)
(* hooks, ModuleB::OnShutdownModule) is part of the step that invokes it;  *)
(* ModuleB::OnStartupModule calls back into the Manager and has a frame.   *)
(***************************************************************************)
EXTENDS Naturals, Sequences, FiniteSets

\* Bound: how many module objects ModuleCreator<Module>::Create() makes in a run.
MaxInst == 3

\* Module identities (ModuleInfo values, one per module type).
Modules == {"A", "B"}

\* The programs considered: the module types a program declares with
\* FKL_REGISTER_MODULE.  In the first one, B is a type that is never registered.
Programs == {{"A"}, {"A", "B"}}

\* Threads of the process; MainThread runs the static initialisers and main.
Threads == {"t1", "t2"}
MainThread == "t1"

\* The null shared_ptr.
Null == 0
Instances == 1..MaxInst

NoInfo == "none"

VARIABLES
    m_modules,   \* flat_hash_map<ModuleInfo, shared_ptr<ModuleInterface>>: Null = no entry
    m_mutex,     \* absl::Mutex: the threads that hold it shared
    stack,       \* per thread: the call stack, a sequence of frames
    thrown,      \* per thread: the exception that ended it, or "none"
    created,     \* number of module objects made so far by ModuleCreator::Create
    started,     \* per module object: OnStartupModule invocations
    shutdown,    \* per module object: OnShutdownModule invocations
    registered,  \* module types whose StaticallyLoadedModuleRegistrant is constructed
    declared,    \* module types declared with FKL_REGISTER_MODULE in this program
    phase,       \* "static": dynamic initialisation of globals; "main": main has begun
    active,      \* the threads that exist in this run
    last         \* per thread: the call that last returned to the client and its value,
                 \* which the client keeps until it makes its next call

vars == <<m_modules, m_mutex, stack, thrown, created, started, shutdown,
          registered, declared, phase, active, last>>

----------------------------------------------------------------------------
\* Frames and stacks

Frame(fn, pc, info, ptr) ==
    [fn |-> fn, pc |-> pc, info |-> info, ptr |-> ptr, b |-> FALSE, wk |-> Null,
     rep |-> FALSE]

Top(t) == stack[t][Len(stack[t])]

Pop(s) == SubSeq(s, 1, Len(s) - 1)

\* The thread is at line pc of an activation of fn.
At(t, fn, pc) ==
    /\ t \in active
    /\ thrown[t] = "none"
    /\ Len(stack[t]) > 0
    /\ Top(t).fn = fn
    /\ Top(t).pc = pc

\* The stack with the top frame moved to line pc.
Goto(t, pc) == [stack EXCEPT ![t][Len(stack[t])].pc = pc]

\* The stack with the top frame moved to line pc and the callees' frames pushed.
CallFrom(t, pc, callees) ==
    [stack EXCEPT ![t] = [stack[t] EXCEPT ![Len(stack[t])].pc = pc] \o callees]

\* IsModuleLoaded(info), about to run.
IsModuleLoadedFrame(info) == Frame("IsModuleLoaded", "L77", info, Null)

\* GetModuleInterfaceSharedPtr(info), at its call of IsModuleLoaded(info) (line 259).
GetModuleInterfaceSharedPtrFrames(info) ==
    <<Frame("GetModuleInterfaceSharedPtr", "L259", info, Null), IsModuleLoadedFrame(info)>>

\* A weak_ptr made from a shared_ptr: empty when the shared_ptr is null.
WeakRef(i) == [kind |-> IF i = Null THEN "empty" ELSE "weak", inst |-> i]

NoRef == [kind |-> "none", inst |-> Null]

\* What the client keeps of a call that returned to it: the function, its
\* argument, and the value returned (a bool, a count or a reference).
Outcome(fn, info, b, n, ref) ==
    [fn |-> fn, info |-> info, b |-> b, n |-> n, ref |-> ref]

NoCall == Outcome("none", NoInfo, FALSE, 0, NoRef)

----------------------------------------------------------------------------
\* The table and the mutex

contains(info) == m_modules[info] # Null

size == Cardinality({M \in Modules : m_modules[M] # Null})

\* A bug: at() yields no entry's pointer.
at_Null(info) == Null

\* The pointer m_modules.at(info) yields for a key that has an entry.
at(info) == m_modules[info]

\* ReaderLock() can be taken: no thread holds the mutex exclusively.  A section
\* under Lock() is one step, so no state has an exclusive holder.
CanReaderLock == TRUE

\* Lock() can be taken: no thread holds the mutex shared.
CanLock == m_mutex = {}

----------------------------------------------------------------------------
\* Ownership of module objects (std::shared_ptr use counts)

InTable(i) == \E M \in Modules : m_modules[M] = i

InFrame(i) == \E t \in Threads : \E k \in 1..Len(stack[t]) : stack[t][k].ptr = i

HeldStrong(i) == \E t \in Threads : last[t].ref = [kind |-> "strong", inst |-> i]

\* use_count() > 0: the object has not been destroyed.
Alive(i) == i \in 1..created /\ (InTable(i) \/ InFrame(i) \/ HeldStrong(i))

\* weak_ptr::lock() of a reference yields a non-null pointer.
Upgrades(ref) == ref.kind = "weak" /\ Alive(ref.inst)

----------------------------------------------------------------------------
\* Returning from a function

\* return of a bool: to the calling frame, or to the client.
ReturnBool(t, v) ==
    IF Len(stack[t]) = 1
    THEN /\ stack' = [stack EXCEPT ![t] = << >>]
         /\ last' = [last EXCEPT ![t] = Outcome(Top(t).fn, Top(t).info, v, 0, NoRef)]
    ELSE /\ stack' = [stack EXCEPT ![t] = [Pop(stack[t]) EXCEPT ![Len(stack[t]) - 1].b = v]]
         /\ UNCHANGED last

\* return of a shared_ptr to the calling frame, which then owns it.
ReturnShared(t, i) ==
    stack' = [stack EXCEPT ![t] = [Pop(stack[t]) EXCEPT ![Len(stack[t]) - 1].ptr = i]]

\* return of a weak_ptr made from shared_ptr i: to the calling frame, or to the client.
ReturnWeak(t, i) ==
    IF Len(stack[t]) = 1
    THEN /\ stack' = [stack EXCEPT ![t] = << >>]
         /\ last' = [last EXCEPT ![t] = Outcome(Top(t).fn, Top(t).info, FALSE, 0, WeakRef(i))]
    ELSE /\ stack' = [stack EXCEPT ![t] = [Pop(stack[t]) EXCEPT ![Len(stack[t]) - 1].wk = i]]
         /\ UNCHANGED last

\* return of no value (or of a count n) to the client.
ReturnToClient(t, n) ==
    /\ stack' = [stack EXCEPT ![t] = << >>]
    /\ last' = [last EXCEPT ![t] = Outcome(Top(t).fn, Top(t).info, FALSE, n, NoRef)]

\* An exception leaves the function: nothing catches it, the thread ends.
Throw(t, what) ==
    /\ thrown' = [thrown EXCEPT ![t] = what]
    /\ stack' = [stack EXCEPT ![t] = << >>]

\* m_modules.at(info) finds no entry and throws std::out_of_range between
\* ReaderLock() and ReaderUnlock(): the mutex is unlocked by hand, not by a
\* guard object, so the thread's shared hold is never given back.
ThrowOutOfRange(t) ==
    /\ Throw(t, "out_of_range")
    /\ m_mutex' = m_mutex \cup {t}

----------------------------------------------------------------------------
\* Initial states

TypeOK ==
    /\ m_modules \in [Modules -> 0..MaxInst]
    /\ m_mutex \subseteq Threads
    /\ created \in 0..MaxInst
    /\ started \in [Instances -> Nat]
    /\ shutdown \in [Instances -> Nat]
    /\ registered \subseteq declared
    /\ declared \subseteq Modules
    /\ phase \in {"static", "main"}
    /\ active \subseteq Threads

InitManager ==
    /\ m_modules = [M \in Modules |-> Null]
    /\ m_mutex = {}
    /\ stack = [t \in Threads |-> << >>]
    /\ thrown = [t \in Threads |-> "none"]
    /\ created = 0
    /\ started = [i \in Instances |-> 0]
    /\ shutdown = [i \in Instances |-> 0]
    /\ registered = {}
    /\ declared \in Programs
    /\ phase = "static"
    /\ last = [t \in Threads |-> NoCall]

\* Any number of threads call into the Manager.
Init == InitManager /\ active = Threads

\* Only the main thread calls into the Manager.
InitSingle == InitManager /\ active = {MainThread}

----------------------------------------------------------------------------
\* ModuleManager::IsModuleLoaded(const ModuleInfo&)

\* m_mutex.ReaderLock(); result = m_modules.contains(info);
\* m_mutex.ReaderUnlock(); return result
IsModuleLoaded_L77(t) ==
    /\ At(t, "IsModuleLoaded", "L77")
    /\ CanReaderLock
    /\ ReturnBool(t, contains(Top(t).info))
    /\ UNCHANGED <<m_modules, m_mutex, thrown, created, started, shutdown, registered,
                   declared, phase, active>>

----------------------------------------------------------------------------
\* ModuleManager::ModuleCount()

\* m_mutex.ReaderLock(); size = m_modules.size(); m_mutex.ReaderUnlock(); return size
ModuleCount_L106(t) ==
    /\ At(t, "ModuleCount", "L106")
    /\ CanReaderLock
    /\ ReturnToClient(t, size)
    /\ UNCHANGED <<m_modules, m_mutex, thrown, created, started, shutdown, registered,
                   declared, phase, active>>

----------------------------------------------------------------------------
\* ModuleManager::TearDown()

\* The table after m_modules.clear().
Cleared == [M \in Modules |-> Null]

\* The OnShutdownModule counts after TearDown: it calls no hook.
TearDownShutdown == shutdown

\* m_mutex.Lock(); m_modules.clear(); m_mutex.Unlock()
TearDown_L64(t) ==
    /\ At(t, "TearDown", "L64")
    /\ CanLock
    /\ m_modules' = Cleared
    /\ shutdown' = TearDownShutdown
    /\ ReturnToClient(t, 0)
    /\ UNCHANGED <<m_mutex, thrown, created, started, registered,
                   declared, phase, active>>

----------------------------------------------------------------------------
\* The hooks of the module types (src/examples/simple_example.cpp)

\* The module type a module type injects and requires in its startup hook:
\* ModuleB has FKL_INJECT_MODULE(ModuleA, GetModuleA) and FKL_REQUIRE_MODULE(ModuleA).
Requires(M) == IF M = "B" THEN "A" ELSE NoInfo

\* GetModulePtr(info), at its call of GetModuleInterfaceSharedPtr(info) (line 244).
GetModulePtrFrames(info) ==
    <<Frame("GetModulePtr", "L245", info, Null)>> \o GetModuleInterfaceSharedPtrFrames(info)

\* FKL_REQUIRE_MODULE(ModuleType): asks the Manager for the module and discards
\* the handle.
FKL_REQUIRE_MODULE(M) == GetModulePtrFrames(M)

\* The accessor Getter() of FKL_INJECT_MODULE(ModuleType, Getter), at its call of
\* GetModulePtr<ModuleType>() (line 334).
GetterFrames(M) == <<Frame("Getter", "L334", M, Null)>> \o GetModulePtrFrames(M)

\* module_interface_ptr->OnStartupModule() on an object of module type M:
\* ModuleA::OnStartupModule only logs; ModuleB::OnStartupModule starts with
\* FKL_REQUIRE_MODULE(ModuleA) (line 47).
OnStartupModuleFrames(M) ==
    IF Requires(M) = NoInfo
    THEN << >>
    ELSE <<Frame("OnStartupModule", "L49", M, Null)>> \o FKL_REQUIRE_MODULE(Requires(M))

\* ModuleB::OnStartupModule, line 49: the handle of FKL_REQUIRE_MODULE is dropped;
\* GetModuleA() is called.
OnStartupModule_L49(t) ==
    /\ At(t, "OnStartupModule", "L49")
    /\ stack' = CallFrom(t, "L50", GetterFrames(Requires(Top(t).info)))
    /\ UNCHANGED <<m_modules, m_mutex, thrown, created, started, shutdown, registered,
                   declared, phase, active, last>>

\* ModuleB::OnStartupModule, lines 49-50: ->Greet() on what GetModuleA() returned,
\* the temporary is destroyed, the hook returns to AddModule.
OnStartupModule_L50(t) ==
    /\ At(t, "OnStartupModule", "L50")
    /\ stack' = [stack EXCEPT ![t] = Pop(stack[t])]
    /\ UNCHANGED <<m_modules, m_mutex, thrown, created, started, shutdown, registered,
                   declared, phase, active, last>>

----------------------------------------------------------------------------
\* ModuleManager::AddModule<Module>(module_ptr, info)

\* A bug: the nullptr check of line 132 is missing.
AddModuleRejects_NoNullCheck(b, ptr) == IF b THEN "loaded" ELSE "none"

\* A bug: the IsModuleLoaded check of line 127 is missing.
AddModuleRejects_NoLoadedCheck(b, ptr) == IF ptr = Null THEN "null" ELSE "none"

\* Why AddModule returns false before touching anything: the result b of
\* IsModuleLoaded(info) (line 127), then the nullptr check (line 132).
AddModuleRejects(b, ptr) ==
    IF b THEN "loaded" ELSE IF ptr = Null THEN "null" ELSE "none"

\* A bug: the insertion replaces an existing entry (insert_or_assign).
Emplaced_Overwrites(info, ptr) == [m_modules EXCEPT ![info] = ptr]

\* The table after m_modules.emplace(info, ptr): emplace inserts only when the key
\* has no entry, and leaves an existing entry as it is.
Emplaced(info, ptr) ==
    IF m_modules[info] = Null THEN [m_modules EXCEPT ![info] = ptr] ELSE m_modules

\* AddModule(module_ptr, info), at its call of IsModuleLoaded(info) (line 127).
AddModuleFrames(info, ptr) ==
    <<Frame("AddModule", "L127", info, ptr), IsModuleLoadedFrame(info)>>

\* A bug: OnStartupModule() is called before the checks of lines 127 and 132.
AddModule_L127_HookFirst(t) ==
    /\ At(t, "AddModule", "L127")
    /\ started' = [i \in Instances |-> IF i = Top(t).ptr THEN started[i] + 1 ELSE started[i]]
    /\ IF AddModuleRejects(Top(t).b, Top(t).ptr) # "none"
       THEN ReturnBool(t, FALSE)
       ELSE /\ stack' = CallFrom(t, "L141", OnStartupModuleFrames(Top(t).info))
            /\ UNCHANGED last
    /\ UNCHANGED <<m_modules, m_mutex, thrown, created, shutdown, registered,
                   declared, phase, active>>

\* A bug: the instance is inserted into the table before OnStartupModule() is called.
AddModule_L127_PublishFirst(t) ==
    /\ At(t, "AddModule", "L127")
    /\ IF AddModuleRejects(Top(t).b, Top(t).ptr) # "none"
       THEN ReturnBool(t, FALSE) /\ UNCHANGED <<started, m_modules>>
       ELSE /\ m_modules' = Emplaced(Top(t).info, Top(t).ptr)
            /\ started' = [started EXCEPT ![Top(t).ptr] = @ + 1]
            /\ stack' = CallFrom(t, "L141", OnStartupModuleFrames(Top(t).info))
            /\ UNCHANGED last
    /\ UNCHANGED <<m_mutex, thrown, created, shutdown, registered,
                   declared, phase, active>>

\* A bug: m_mutex is taken before OnStartupModule() is called and is still held
\* while the hook runs.
AddModule_L127_HookUnderLock(t) ==
    /\ At(t, "AddModule", "L127")
    /\ IF AddModuleRejects(Top(t).b, Top(t).ptr) # "none"
       THEN ReturnBool(t, FALSE) /\ UNCHANGED <<started, m_mutex>>
       ELSE /\ m_mutex' = m_mutex \cup {t}
            /\ started' = [started EXCEPT ![Top(t).ptr] = @ + 1]
            /\ stack' = CallFrom(t, "L141", OnStartupModuleFrames(Top(t).info))
            /\ UNCHANGED last
    /\ UNCHANGED <<m_modules, thrown, created, shutdown, registered,
                   declared, phase, active>>

\* if (IsModuleLoaded(info)) return false; if (!module_ptr) return false;
\* module_interface_ptr->OnStartupModule()
AddModule_L127(t) ==
    /\ At(t, "AddModule", "L127")
    /\ IF AddModuleRejects(Top(t).b, Top(t).ptr) # "none"
       THEN ReturnBool(t, FALSE) /\ UNCHANGED started
       ELSE /\ started' = [started EXCEPT ![Top(t).ptr] = @ + 1]
            /\ stack' = CallFrom(t, "L141", OnStartupModuleFrames(Top(t).info))
            /\ UNCHANGED last
    /\ UNCHANGED <<m_modules, m_mutex, thrown, created, shutdown, registered,
                   declared, phase, active>>

\* m_mutex.Lock(); m_modules.emplace(info, module_interface_ptr);
\* m_mutex.Unlock(); return true
AddModule_L141(t) ==
    /\ At(t, "AddModule", "L141")
    /\ CanLock
    /\ m_modules' = Emplaced(Top(t).info, Top(t).ptr)
    /\ ReturnBool(t, TRUE)
    /\ UNCHANGED <<m_mutex, thrown, created, started, shutdown, registered,
                   declared, phase, active>>

----------------------------------------------------------------------------
\* ModuleManager::GetModuleInterfaceSharedPtr(const ModuleInfo&)

\* if (!IsModuleLoaded(info)) return nullptr;
\* m_mutex.ReaderLock(); result = m_modules.at(info); m_mutex.ReaderUnlock();
\* return result
GetModuleInterfaceSharedPtr_L259(t) ==
    /\ At(t, "GetModuleInterfaceSharedPtr", "L259")
    /\ IF ~Top(t).b
       THEN ReturnShared(t, Null) /\ UNCHANGED <<m_mutex, thrown>>
       ELSE /\ CanReaderLock
            /\ IF contains(Top(t).info)
               THEN ReturnShared(t, at(Top(t).info)) /\ UNCHANGED <<m_mutex, thrown>>
               ELSE ThrowOutOfRange(t)
    /\ UNCHANGED <<m_modules, created, started, shutdown, registered,
                   declared, phase, active, last>>

----------------------------------------------------------------------------
\* ModuleManager::RemoveModule(const ModuleInfo&)

\* A bug: the entry is not erased.
Erased_Nothing(info) == m_modules

\* A bug: the whole table is emptied instead of one entry.
Erased_Cleared(info) == Cleared

\* The table after m_modules.erase(info).
Erased(info) == [m_modules EXCEPT ![info] = Null]

\* RemoveModule(info), at its call of IsModuleLoaded(info) (line 171).
RemoveModuleFrames(info) ==
    <<Frame("RemoveModule", "L171", info, Null), IsModuleLoadedFrame(info)>>

\* if (!IsModuleLoaded(info)) return false;
\* module_interface_ptr = GetModuleInterfaceSharedPtr(info): the call
RemoveModule_L171(t) ==
    /\ At(t, "RemoveModule", "L171")
    /\ IF ~Top(t).b
       THEN ReturnBool(t, FALSE)
       ELSE /\ stack' = CallFrom(t, "L179", GetModuleInterfaceSharedPtrFrames(Top(t).info))
            /\ UNCHANGED last
    /\ UNCHANGED <<m_modules, m_mutex, thrown, created, started, shutdown, registered,
                   declared, phase, active>>

\* if (!module_interface_ptr) return false;
\* module_interface_ptr->OnShutdownModule()
RemoveModule_L179(t) ==
    /\ At(t, "RemoveModule", "L179")
    /\ IF Top(t).ptr = Null
       THEN ReturnBool(t, FALSE) /\ UNCHANGED shutdown
       ELSE /\ shutdown' = [shutdown EXCEPT ![Top(t).ptr] = @ + 1]
            /\ stack' = Goto(t, "L187")
            /\ UNCHANGED last
    /\ UNCHANGED <<m_modules, m_mutex, thrown, created, started, registered,
                   declared, phase, active>>

\* m_mutex.Lock(); m_modules.erase(info); m_mutex.Unlock(); return true
RemoveModule_L187(t) ==
    /\ At(t, "RemoveModule", "L187")
    /\ CanLock
    /\ m_modules' = Erased(Top(t).info)
    /\ ReturnBool(t, TRUE)
    /\ UNCHANGED <<m_mutex, thrown, created, started, shutdown, registered,
                   declared, phase, active>>

----------------------------------------------------------------------------
\* ModuleManager::GetModuleInterfacePtr(const ModuleInfo&)

\* What GetModuleInterfacePtr does when IsModuleLoaded(info) was false (lines
\* 202-206): it returns an empty weak_ptr.
NotLoadedLookup(t) == ReturnWeak(t, Null) /\ UNCHANGED <<m_mutex, thrown>>

\* if (!IsModuleLoaded(info)) return std::weak_ptr<ModuleInterface>();
\* m_mutex.ReaderLock(); result = m_modules.at(info); m_mutex.ReaderUnlock();
\* return result
GetModuleInterfacePtr_L202(t) ==
    /\ At(t, "GetModuleInterfacePtr", "L202")
    /\ IF ~Top(t).b
       THEN NotLoadedLookup(t)
       ELSE /\ CanReaderLock
            /\ IF contains(Top(t).info)
               THEN ReturnWeak(t, at(Top(t).info)) /\ UNCHANGED <<m_mutex, thrown>>
               ELSE ThrowOutOfRange(t) /\ UNCHANGED last
    /\ UNCHANGED <<m_modules, created, started, shutdown, registered,
                   declared, phase, active>>

----------------------------------------------------------------------------
\* ModuleManager::GetModulePtr<Module>(info)

\* return std::weak_ptr<Module>(std::static_pointer_cast<Module>(module_ptr));
\* the local module_ptr is destroyed on the way out.
GetModulePtr_L245(t) ==
    /\ At(t, "GetModulePtr", "L245")
    /\ ReturnWeak(t, Top(t).ptr)
    /\ UNCHANGED <<m_modules, m_mutex, thrown, created, started, shutdown, registered,
                   declared, phase, active>>

----------------------------------------------------------------------------
\* FKL_INJECT_MODULE(ModuleType, Getter): std::shared_ptr<ModuleType> Getter() const

\* What the accessor hands to its caller from the weak_ptr that GetModulePtr
\* returned: its return type is std::shared_ptr<ModuleType>, an owning reference.
AccessorRef(wk) == [kind |-> "strong", inst |-> wk]

\* return ModuleManager::Get().GetModulePtr<ModuleType>();
\* The weak_ptr becomes the shared_ptr that is returned: shared_ptr's constructor
\* from a weak_ptr throws std::bad_weak_ptr when the weak_ptr is empty or expired.
Getter_L334(t) ==
    /\ At(t, "Getter", "L334")
    /\ IF Upgrades(WeakRef(Top(t).wk))
       THEN /\ IF Len(stack[t]) = 1
               THEN /\ stack' = [stack EXCEPT ![t] = << >>]
                    /\ last' = [last EXCEPT ![t] =
                           Outcome("Getter", Top(t).info, FALSE, 0, AccessorRef(Top(t).wk))]
               ELSE /\ ReturnShared(t, AccessorRef(Top(t).wk).inst)
                    /\ UNCHANGED last
            /\ UNCHANGED thrown
       ELSE /\ Throw(t, "bad_weak_ptr")
            /\ UNCHANGED last
    /\ UNCHANGED <<m_modules, m_mutex, created, started, shutdown, registered,
                   declared, phase, active>>

----------------------------------------------------------------------------
\* StaticallyLoadedModuleRegistrant<Module> and FKL_REGISTER_MODULE

\* A bug: the registrant's constructor only records the module type and loads nothing.
RegistrantCall_RegistersOnly(M, ptr) == << >>

\* What the registrant's constructor calls for its module type (line 317):
\* AddModule<Module>(), whose default argument ModuleCreator<Module>::Create()
\* makes the module object ptr.
RegistrantCall(M, ptr) == AddModuleFrames(M, ptr)

\* Dynamic initialisation of a namespace-scope registrant object, before main:
\* the constructor runs up to its call of AddModule<Module>().
StaticInit(t, M) ==
    /\ phase = "static"
    /\ t = MainThread
    /\ stack[t] = << >>
    /\ M \in declared \ registered
    /\ created < MaxInst
    /\ created' = created + 1
    /\ stack' = [stack EXCEPT ![t] =
           <<Frame("StaticallyLoadedModuleRegistrant", "L318", M, Null)>>
               \o RegistrantCall(M, created + 1)]
    /\ last' = [last EXCEPT ![t] = NoCall]
    /\ UNCHANGED <<m_modules, m_mutex, thrown, started, shutdown, registered,
                   declared, phase, active>>

\* A bug: a registrant's construction undoes the registrants constructed before it.
Constructed_Only(M) == {M}

\* The registrant objects that exist once the one of module type M is constructed.
Constructed(M) == registered \cup {M}

\* The constructor ends: the registrant object of the module type exists.
Registrant_L318(t) ==
    /\ At(t, "StaticallyLoadedModuleRegistrant", "L318")
    /\ registered' = Constructed(Top(t).info)
    /\ ReturnToClient(t, 0)
    /\ UNCHANGED <<m_modules, m_mutex, thrown, created, started, shutdown,
                   declared, phase, active>>

\* Every declared registrant is constructed: main begins.
MainBegins ==
    /\ phase = "static"
    /\ stack[MainThread] = << >>
    /\ registered = declared
    /\ phase' = "main"
    /\ UNCHANGED <<m_modules, m_mutex, stack, thrown, created, started, shutdown,
                   registered, declared, active, last>>

----------------------------------------------------------------------------
\* The clients: what the threads of the program call

Idle(t) ==
    /\ phase = "main"
    /\ t \in active
    /\ thrown[t] = "none"
    /\ stack[t] = << >>

\* The client's last call was this one, on the same identity, and returned true.
Repeats(t, fn, M) == last[t] = Outcome(fn, M, TRUE, 0, NoRef)

\* The client calls: it lets go of what its last call returned.
Enter(t, frames) ==
    /\ stack' = [stack EXCEPT ![t] =
           [frames EXCEPT ![1].rep = Repeats(t, frames[1].fn, frames[1].info)]]
    /\ last' = [last EXCEPT ![t] = NoCall]
    /\ UNCHANGED <<m_modules, m_mutex, thrown, started, shutdown, registered,
                   declared, phase, active>>

\* AddModule<Module>(): the default argument makes a new module object.
CallAddModule(t, M) ==
    /\ Idle(t)
    /\ created < MaxInst
    /\ created' = created + 1
    /\ Enter(t, AddModuleFrames(M, created + 1))

\* AddModule<Module>(nullptr)
CallAddModuleNull(t, M) ==
    /\ Idle(t)
    /\ Enter(t, AddModuleFrames(M, Null))
    /\ UNCHANGED created

CallRemoveModule(t, M) ==
    /\ Idle(t)
    /\ Enter(t, RemoveModuleFrames(M))
    /\ UNCHANGED created

CallTearDown(t) ==
    /\ Idle(t)
    /\ Enter(t, <<Frame("TearDown", "L64", NoInfo, Null)>>)
    /\ UNCHANGED created

CallIsModuleLoaded(t, M) ==
    /\ Idle(t)
    /\ Enter(t, <<IsModuleLoadedFrame(M)>>)
    /\ UNCHANGED created

CallModuleCount(t) ==
    /\ Idle(t)
    /\ Enter(t, <<Frame("ModuleCount", "L106", NoInfo, Null)>>)
    /\ UNCHANGED created

CallGetModuleInterfacePtr(t, M) ==
    /\ Idle(t)
    /\ Enter(t, <<Frame("GetModuleInterfacePtr", "L202", M, Null), IsModuleLoadedFrame(M)>>)
    /\ UNCHANGED created

CallGetModulePtr(t, M) ==
    /\ Idle(t)
    /\ Enter(t, GetModulePtrFrames(M))
    /\ UNCHANGED created

CallGetter(t, M) ==
    /\ Idle(t)
    /\ Enter(t, GetterFrames(M))
    /\ UNCHANGED created

----------------------------------------------------------------------------
\* The specifications

Next ==
    \/ MainBegins
    \/ \E t \in Threads :
        \/ \E M \in Modules :
            \/ StaticInit(t, M)
            \/ CallAddModule(t, M)
            \/ CallAddModuleNull(t, M)
            \/ CallRemoveModule(t, M)
            \/ CallIsModuleLoaded(t, M)
            \/ CallGetModuleInterfacePtr(t, M)
            \/ CallGetModulePtr(t, M)
            \/ CallGetter(t, M)
        \/ CallTearDown(t)
        \/ CallModuleCount(t)
        \/ Registrant_L318(t)
        \/ IsModuleLoaded_L77(t)
        \/ ModuleCount_L106(t)
        \/ TearDown_L64(t)
        \/ OnStartupModule_L49(t)
        \/ OnStartupModule_L50(t)
        \/ AddModule_L127(t)
        \/ AddModule_L141(t)
        \/ RemoveModule_L171(t)
        \/ RemoveModule_L179(t)
        \/ RemoveModule_L187(t)
        \/ GetModuleInterfaceSharedPtr_L259(t)
        \/ GetModuleInterfacePtr_L202(t)
        \/ GetModulePtr_L245(t)
        \/ Getter_L334(t)

\* Threads call into the Manager concurrently.
Spec == Init /\ [][Next]_vars

\* One thread calls into the Manager.
SpecSingle == InitSingle /\ [][Next]_vars

\* The identity a thread loads and unloads when every thread works on an
\* identity of its own.
Own(t) == IF t = MainThread THEN "A" ELSE "B"

\* The steps of a program whose threads, once main has begun, only call
\* AddModule and RemoveModule, each thread for its own identity.
NextDistinct ==
    \/ MainBegins
    \/ \E t \in Threads :
        \/ \E M \in Modules : StaticInit(t, M)
        \/ CallAddModule(t, Own(t))
        \/ CallAddModuleNull(t, Own(t))
        \/ CallRemoveModule(t, Own(t))
        \/ Registrant_L318(t)
        \/ IsModuleLoaded_L77(t)
        \/ OnStartupModule_L49(t)
        \/ OnStartupModule_L50(t)
        \/ AddModule_L127(t)
        \/ AddModule_L141(t)
        \/ RemoveModule_L171(t)
        \/ RemoveModule_L179(t)
        \/ RemoveModule_L187(t)
        \/ GetModuleInterfaceSharedPtr_L259(t)
        \/ GetModulePtr_L245(t)
        \/ Getter_L334(t)

\* Threads load and unload concurrently, each its own identity.
SpecDistinct == Init /\ [][NextDistinct]_vars

----------------------------------------------------------------------------
\* Observing calls

\* This step is the return of the activation of fn on top of t's stack.
Returns(t, fn) ==
    /\ thrown[t] = "none"
    /\ Len(stack[t]) > 0
    /\ Top(t).fn = fn
    /\ Len(stack'[t]) = Len(stack[t]) - 1
    /\ thrown'[t] = "none"

\* The bool this step returns, to the client or to the calling frame.
ReturnedBool(t) ==
    IF Len(stack[t]) = 1 THEN last'[t].b ELSE stack'[t][Len(stack[t]) - 1].b

\* The weak reference this step returns, to the client or to the calling frame.
ReturnedRef(t) ==
    IF Len(stack[t]) = 1 THEN last'[t].ref ELSE WeakRef(stack'[t][Len(stack[t]) - 1].wk)

\* t is inside a call the client made of fn.
InClientCall(t, fn) == phase = "main" /\ Len(stack[t]) > 0 /\ stack[t][1].fn = fn

\* IsModuleRegistered(M): the registrant of M has run.
IsModuleRegistered(M) == M \in registered

\* The table and the hook counts stay as they are in this step.
NothingChanges == UNCHANGED <<m_modules, started, shutdown>>

----------------------------------------------------------------------------
\* C1 as stated: AddModule(M) succeeds if and only if, immediately beforehand,
\* IsModuleRegistered(M) is true and IsModuleLoaded(M) is false.
C1_AddModuleSucceedsIffRegisteredAndNotLoaded ==
    [][\A t \in Threads :
        (Returns(t, "AddModule") /\ InClientCall(t, "AddModule")) =>
            (ReturnedBool(t) <=>
                (IsModuleRegistered(Top(t).info) /\ ~contains(Top(t).info)))]_vars

\* C1 as amended: with no other thread in the Manager, AddModule(M) succeeds if
\* and only if, immediately beforehand, IsModuleLoaded(M) is false and the
\* module_ptr passed is not null (registration is not consulted); on success
\* OnStartupModule has run exactly once on the new instance, which is the entry
\* stored for M, so IsModuleLoaded(M) is true afterwards.
C1_AddModuleSucceedsIffNotLoadedAndNotNull ==
    [][\A t \in Threads :
        Returns(t, "AddModule") =>
            /\ ReturnedBool(t) <=> (~contains(Top(t).info) /\ Top(t).ptr # Null)
            /\ ReturnedBool(t) =>
                /\ started'[Top(t).ptr] = 1
                /\ m_modules'[Top(t).info] = Top(t).ptr]_vars

\* C1's case: a client's AddModule of a type that was never registered returned
\* true, and the type is loaded.
C1_Witness ==
    \E t \in Threads : \E M \in Modules :
        /\ last[t] = Outcome("AddModule", M, TRUE, 0, NoRef)
        /\ ~IsModuleRegistered(M)
        /\ contains(M)
        /\ started[m_modules[M]] = 1

----------------------------------------------------------------------------
\* C2: with no other thread in the Manager, RemoveModule(M) succeeds if and only
\* if IsModuleLoaded(M) is true immediately beforehand; on success
\* OnShutdownModule has run exactly once on the stored instance and
\* IsModuleLoaded(M) is false afterwards.
C2_RemoveModuleSucceedsIffLoaded ==
    [][\A t \in Threads :
        Returns(t, "RemoveModule") =>
            /\ ReturnedBool(t) <=> contains(Top(t).info)
            /\ ReturnedBool(t) =>
                /\ Top(t).ptr = m_modules[Top(t).info]
                /\ shutdown'[Top(t).ptr] = 1
                /\ m_modules'[Top(t).info] = Null]_vars

\* C2's case: RemoveModule(M) returned true to the client.
C2_Witness ==
    \E t \in Threads : \E M \in Modules : \E i \in Instances :
        /\ last[t] = Outcome("RemoveModule", M, TRUE, 0, NoRef)
        /\ ~contains(M)
        /\ started[i] = 1
        /\ shutdown[i] = 1
        /\ ~Alive(i)

----------------------------------------------------------------------------
\* C3: when TearDown() returns, ModuleCount() is 0 and every module instance
\* that was in the loaded table when TearDown started has received exactly one
\* OnShutdownModule call.
C3_TearDownShutsDownEveryLoadedInstance ==
    [][\A t \in Threads :
        Returns(t, "TearDown") =>
            /\ \A M \in Modules : m_modules'[M] = Null
            /\ \A i \in Instances : InTable(i) => shutdown'[i] = 1]_vars

----------------------------------------------------------------------------
\* C4: after the static registrant of a module type M has run, M is registered
\* but not loaded: IsModuleLoaded(M) is false, ModuleCount() does not count M,
\* and no OnStartupModule hook has been invoked.
C4_StaticRegistrationOnlyRegisters ==
    (phase = "static" /\ stack[MainThread] = << >>) =>
        /\ \A M \in registered : ~contains(M)
        /\ size = 0
        /\ \A i \in Instances : started[i] = 0

----------------------------------------------------------------------------
\* t is inside a lookup the client made.
InLookup(t) ==
    \/ InClientCall(t, "GetModuleInterfacePtr")
    \/ InClientCall(t, "GetModulePtr")
    \/ InClientCall(t, "Getter")

\* This step is the return of GetModuleInterfacePtr or GetModulePtr.
LookupReturns(t) == Returns(t, "GetModuleInterfacePtr") \/ Returns(t, "GetModulePtr")

\* C5 as stated: when A is registered, GetModuleInterfacePtr(A) and
\* GetModulePtr<A>() leave A loaded (loading it if need be) and return a
\* non-empty reference to the instance stored for A; an empty reference is
\* returned only when A is not registered.
C5_LookupLoadsRegisteredModule ==
    [][\A t \in Threads :
        (LookupReturns(t) /\ IsModuleRegistered(Top(t).info)) =>
            /\ m_modules'[Top(t).info] # Null
            /\ ReturnedRef(t).kind = "weak"
            /\ ReturnedRef(t).inst = m_modules'[Top(t).info]]_vars

\* C5 as amended: there is no lazy resolution.  With no other thread in the
\* Manager, no step of GetModuleInterfacePtr(A), GetModulePtr<A>() or a
\* Dependency Accessor for A loads anything or invokes a hook; when A is not
\* loaded, registered or not, the reference returned is empty and A stays not
\* loaded; when A is loaded the reference is non-empty and refers to the
\* instance stored in the loaded table.
C5_LookupNeverLoads ==
    [][\A t \in Threads :
        /\ (InLookup(t) /\ stack'[t] # stack[t]) => NothingChanges
        /\ LookupReturns(t) =>
            IF contains(Top(t).info)
            THEN /\ ReturnedRef(t).kind = "weak"
                 /\ ReturnedRef(t).inst = m_modules[Top(t).info]
            ELSE ReturnedRef(t).kind = "empty"]_vars

\* C5's case: a lookup of a registered, not loaded type returned an empty
\* reference to the client, and the type is still not loaded.
C5_Witness ==
    \E t \in Threads : \E M \in Modules :
        /\ last[t].fn \in {"GetModuleInterfacePtr", "GetModulePtr"}
        /\ last[t].info = M
        /\ last[t].ref.kind = "empty"
        /\ IsModuleRegistered(M)
        /\ ~contains(M)

----------------------------------------------------------------------------
\* C6: with no other thread in the Manager, an AddModule(M) that directly follows
\* a successful AddModule(M) of the same client fails, and no step of it
\* replaces the stored instance or invokes a hook; likewise a RemoveModule(M)
\* that directly follows a successful RemoveModule(M) fails without invoking a
\* second shutdown hook.
C6_SecondCallInARowFails ==
    [][\A t \in Threads :
        /\ (Returns(t, "AddModule") /\ Top(t).rep) => ~ReturnedBool(t)
        /\ (Returns(t, "RemoveModule") /\ Top(t).rep) => ~ReturnedBool(t)
        /\ (Len(stack[t]) > 0 /\ stack[t][1].rep) => NothingChanges]_vars

\* C6's case: the second AddModule(M) in a row, given a new instance, is about to
\* be rejected because M is loaded.
C6_Witness ==
    \E t \in Threads :
        /\ Len(stack[t]) = 1
        /\ Top(t).fn = "AddModule"
        /\ Top(t).pc = "L127"
        /\ Top(t).rep
        /\ Top(t).b
        /\ Top(t).ptr # Null
        /\ contains(Top(t).info)

----------------------------------------------------------------------------
\* The call of frame f is one of the failing operations: a load given a null
\* instance, a load of a loaded identity, an unload of an identity not loaded.
FailingCall(f) ==
    \/ f.fn = "AddModule" /\ (f.ptr = Null \/ contains(f.info))
    \/ f.fn = "RemoveModule" /\ ~contains(f.info)

\* C7 as stated: a load of an identity that was never registered, a load given a
\* null instance, a load of a loaded identity and an unload of an identity that
\* is not loaded each return failure, invoke no hook and leave the table as it was.
C7_FailingOperationChangesNothing ==
    [][\A t \in Threads :
        (/\ phase = "main"
         /\ Len(stack[t]) > 0
         /\ \/ FailingCall(stack[t][1])
            \/ stack[t][1].fn = "AddModule" /\ ~IsModuleRegistered(stack[t][1].info)) =>
            /\ NothingChanges
            /\ Len(stack'[t]) = 0 => (thrown'[t] = "none" /\ ~last'[t].b)]_vars

\* C7 as amended: with no other thread in the Manager, a load given a null
\* instance, a load of a loaded identity and an unload of an identity that is
\* not loaded each return failure, invoke no hook and leave the table as it was
\* (a load of a never registered identity is not among them: it succeeds).
C7_RejectedOperationChangesNothing ==
    [][\A t \in Threads :
        (phase = "main" /\ Len(stack[t]) > 0 /\ FailingCall(stack[t][1])) =>
            /\ NothingChanges
            /\ Len(stack'[t]) = 0 => (thrown'[t] = "none" /\ ~last'[t].b)]_vars

\* C7's case: a load given a null instance returned failure for an identity that
\* is not loaded, and an instance that was refused as already loaded is gone
\* without any hook.
C7_Witness ==
    \E t \in Threads : \E M \in Modules : \E i \in Instances :
        /\ last[t] = Outcome("AddModule", M, FALSE, 0, NoRef)
        /\ ~contains(M)
        /\ i <= created
        /\ ~Alive(i)
        /\ started[i] = 0

----------------------------------------------------------------------------
\* C8: no Manager operation unwinds with an exception: the lookup that follows
\* an 'is loaded' check never runs on a key that is absent.
C8_NoOperationThrows == \A t \in Threads : thrown[t] # "out_of_range"

----------------------------------------------------------------------------
----------------------------------------------------------------------------
\* C10: the Manager is the only long-lived owner of a module instance: an
\* instance that is no longer in the loaded table is kept alive by nothing but a
\* Manager call that is still running, so every reference handed out earlier
\* fails to upgrade once RemoveModule or TearDown has returned.
C10_ManagerIsSoleOwner ==
    \A i \in Instances : (Alive(i) /\ ~InTable(i)) => InFrame(i)

----------------------------------------------------------------------------
\* FKL_LOAD_MODULE(ModuleType) in main: the top-level load of a module type.
FKL_LOAD_MODULE(t, M) == InClientCall(t, "AddModule") /\ stack[t][1].info = M

----------------------------------------------------------------------------
\* C12: in every reachable state, also between the steps of AddModule,
\* RemoveModule and TearDown, a module instance is an entry of the loaded table
\* if and only if its startup hook has been invoked and its shutdown hook has
\* not yet been invoked.
C12_EntryIffStartedAndNotShutDown ==
    \A i \in Instances : InTable(i) <=> (started[i] >= 1 /\ shutdown[i] = 0)

----------------------------------------------------------------------------
\* This step is t's section under Lock() at line pc of fn.
LockedSection(t, fn, pc) == At(t, fn, pc) /\ stack'[t] # stack[t]

\* C13 as stated: when two threads run AddModule for the same identity and both
\* pass the 'not already loaded' check, the insertion made last overwrites the
\* entry made first: after every insertion the table holds the instance just
\* inserted.
C13_SecondInsertionOverwrites ==
    [][\A t \in Threads :
        LockedSection(t, "AddModule", "L141") =>
            m_modules'[Top(t).info] = Top(t).ptr]_vars

\* C13 as amended: when two threads run AddModule for the same identity, both
\* can pass the 'not already loaded' check and both startup hooks can execute;
\* the second insertion does not replace the entry: the table keeps the
\* instance inserted first, the second AddModule still returns true, and the
\* second instance, whose startup hook has run, is released when that AddModule
\* returns, without its shutdown hook ever running.
C13_SecondInsertionKeepsFirst ==
    [][\A t \in Threads : \A i \in Instances :
        (LockedSection(t, "AddModule", "L141") /\ Top(t).ptr = i) =>
            /\ Returns(t, "AddModule") /\ ReturnedBool(t)
            /\ started[i] = 1
            /\ IF contains(Top(t).info)
               THEN /\ m_modules' = m_modules
                    /\ m_modules[Top(t).info] # i
                    /\ shutdown'[i] = 0
                    /\ ~Alive(i)'
               ELSE m_modules' = [m_modules EXCEPT ![Top(t).info] = i]]_vars

\* C13's case: one thread's AddModule(M) has inserted its instance and returned
\* true while another thread, which passed the check before that, has run the
\* startup hook of its own instance and is about to insert it.
C13_Witness ==
    \E t, u \in Threads : \E M \in Modules :
        /\ t # u
        /\ last[t] = Outcome("AddModule", M, TRUE, 0, NoRef)
        /\ contains(M)
        /\ At(u, "AddModule", "L141")
        /\ Top(u).info = M
        /\ ~Top(u).b
        /\ Top(u).ptr # m_modules[M]
        /\ started[Top(u).ptr] = 1
        /\ started[m_modules[M]] = 1

----------------------------------------------------------------------------
\* This step is a section under ReaderLock() in which t finds instance i stored
\* for the identity it asks about: IsModuleLoaded returns true, or
\* GetModuleInterfaceSharedPtr or GetModuleInterfacePtr fetch the entry.
Observes(t, i) ==
    /\ i # Null
    /\ \/ Returns(t, "IsModuleLoaded")
       \/ Returns(t, "GetModuleInterfaceSharedPtr") /\ Top(t).b
       \/ Returns(t, "GetModuleInterfacePtr") /\ Top(t).b
    /\ m_modules[Top(t).info] = i

----------------------------------------------------------------------------
\* C15: in any interleaving of concurrent RemoveModule calls for the same
\* identity (and TearDown), OnShutdownModule is invoked exactly once on a loaded
\* instance before it leaves the table: never twice on the same instance, so
\* only one of the concurrent calls gets as far as the hook and returns
\* success, and the entry a RemoveModule call erases is the instance whose hook
\* that call invoked.  (What TearDown does to the entries it drops is C3.)
C15_ShutdownExactlyOnce ==
    [][\A i \in Instances :
        /\ shutdown'[i] <= 1
        /\ \A t \in Threads :
              (LockedSection(t, "RemoveModule", "L187") /\ InTable(i) /\ ~InTable(i)') =>
                  (Top(t).ptr = i /\ shutdown'[i] = 1)]_vars

----------------------------------------------------------------------------
\* The startup hook that t's AddModule invoked on instance i has not returned.
HookRunning(t, i) ==
    \E k \in 1..(Len(stack[t]) - 1) :
        /\ stack[t][k].fn = "AddModule"
        /\ stack[t][k].ptr = i
        /\ stack[t][k + 1].fn = "OnStartupModule"

\* A reference to instance i is held outside the AddModule call that was given
\* i: by a client, or by a frame of another function.
HandedOut(i) ==
    \/ \E t \in Threads : last[t].ref.inst = i
    \/ \E t \in Threads : \E k \in 1..Len(stack[t]) :
          /\ stack[t][k].fn # "AddModule"
          /\ stack[t][k].ptr = i \/ stack[t][k].wk = i

----------------------------------------------------------------------------
\* t is where a lifecycle hook is invoked or runs, or has just returned: before
\* line 139 of AddModule, inside ModuleB::OnStartupModule and the Manager calls
\* it makes, before line 141 of AddModule, before line 185 and before line 187
\* of RemoveModule.
AtHook(t) ==
    \/ At(t, "AddModule", "L127")
    \/ At(t, "AddModule", "L141")
    \/ At(t, "RemoveModule", "L179")
    \/ At(t, "RemoveModule", "L187")
    \/ thrown[t] = "none" /\ \E i \in Instances : HookRunning(t, i)

\* C17: no Manager lock is held by a thread while a lifecycle hook it invoked
\* runs: where OnStartupModule and OnShutdownModule are called, and inside every
\* Manager operation a hook calls back into, the thread does not hold m_mutex,
\* so the operation's own lock of the non-reentrant mutex does not wait for the
\* caller itself.
C17_NoLockHeldAcrossHook ==
    \A t \in Threads : AtHook(t) => t \notin m_mutex

\* C17's case: ModuleB::OnStartupModule, invoked by AddModule, is inside the
\* Manager operation it called back into, which is about to take the reader
\* lock, and no thread holds m_mutex.
C17_Witness ==
    \E t \in Threads : \E i \in Instances :
        /\ HookRunning(t, i)
        /\ At(t, "IsModuleLoaded", "L77")
        /\ started[i] = 1
        /\ m_mutex = {}

----------------------------------------------------------------------------
\* C18: in RemoveModule, once the IsModuleLoaded(info) check of line 171 has
\* passed, the pointer fetched with GetModuleInterfaceSharedPtr(info) is never
\* null, in any interleaving: the 'Obtained nullptr' branch of line 179 is not
\* taken.
C18_RemoveModuleNeverObtainsNull ==
    \A t \in Threads : At(t, "RemoveModule", "L179") => Top(t).ptr # Null

----------------------------------------------------------------------------
\* C19: AddModule and RemoveModule calls of two threads that target different
\* identities do not interfere: every call has the result it has when the calls
\* run one after another (it does not unwind from a lookup of an absent key;
\* AddModule succeeds exactly when its identity is not loaded and its instance
\* is not null, RemoveModule exactly when its identity is loaded), no section
\* under Lock() touches the other identity's entry, an insert leaves its
\* identity loaded and an erase leaves it not loaded.
C19_DistinctIdentitiesDoNotInterfere ==
    [][\A t \in Threads :
        (phase = "main" /\ stack'[t] # stack[t] /\ Len(stack[t]) > 0) =>
            /\ thrown'[t] # "out_of_range"
            /\ \A N \in Modules \ {Own(t)} : m_modules'[N] = m_modules[N]
            /\ Returns(t, "AddModule") =>
                  (ReturnedBool(t) <=> (~contains(Top(t).info) /\ Top(t).ptr # Null))
            /\ Returns(t, "RemoveModule") =>
                  (ReturnedBool(t) <=> contains(Top(t).info))
            /\ LockedSection(t, "AddModule", "L141") => m_modules'[Own(t)] = Top(t).ptr
            /\ LockedSection(t, "RemoveModule", "L187") => m_modules'[Own(t)] = Null]_vars

----------------------------------------------------------------------------
\* C20: no module object is destroyed while m_mutex is held exclusively: an
\* instance that the section under Lock() of RemoveModule or of TearDown takes
\* out of the table has another owner at that moment (the local pointer of the
\* running call, or a reference handed out), so its destructor runs only after
\* Unlock().
C20_NoDestructionUnderLock ==
    [][\A t \in Threads : \A i \in Instances :
        (/\ LockedSection(t, "TearDown", "L64") \/ LockedSection(t, "RemoveModule", "L187")
         /\ InTable(i)
         /\ ~InTable(i)') =>
            (InFrame(i) \/ HeldStrong(i))]_vars

====
